---- MODULE Spec2Model ----
(***************************************************************************)
(* A model of debrebuild.py: the buildinfo parser (BuildInfo.__init__),    *)
(* the snapshot client (get_bin_date), the dependency resolver             *)
(* (find_build_dependencies), the checksum verifier (verify_checksums),    *)
(* the orchestrator (Rebuilder.run) and the entry point (main).            *)
(***************************************************************************)
EXTENDS Integers, Sequences, FiniteSets, TLC

\* ------------------------------------------------------------------------
\* Bounds of the model
\* ------------------------------------------------------------------------
MaxDeps == 3        \* longest Installed-Build-Depends list explored
MaxResults == 2     \* longest 'result' array of a snapshot answer
MaxFiles == 2       \* most files of a checksums dict
RunDeps == 2        \* build-dependencies of the buildinfo a whole run is given
MaxEnvLines == 2    \* most lines of an Environment field

\* ------------------------------------------------------------------------
\* Values
\* ------------------------------------------------------------------------
None == "None"
Archs == {"amd64", "i386"}
SnapshotArchs == {"amd64", "i386", "all"}
Hashes == {"h1", "h2"}
\* raw first_seen strings of the snapshot service
RawSeen == {"T1a", "T1b", "T2a"}
Timestamps == {"T1", "T2"}

\* parsedate(first_seen).strftime("%Y%m%dT%H%M%SZ"): several raw strings
\* format to the same path segment
FormatTimestamp(raw) ==
  CASE raw = "T1a" -> "T1"
    [] raw = "T1b" -> "T1"
    [] raw = "T2a" -> "T2"

\* exceptions in flight
NoExc == [type |-> "", msg |-> ""]
RebuilderException(msg) == [type |-> "RebuilderException", msg |-> msg]
BuildInfoException(msg) == [type |-> "BuildInfoException", msg |-> msg]
OtherException(type) == [type |-> type, msg |-> ""]

\* generic helpers on sequences
Range(s) == {s[i] : i \in 1..Len(s)}

RECURSIVE SeqFilter(_, _)
SeqFilter(s, keep) ==
  IF s = <<>> THEN <<>>
  ELSE IF Head(s) \in keep THEN <<Head(s)>> \o SeqFilter(Tail(s), keep)
       ELSE SeqFilter(Tail(s), keep)

\* ------------------------------------------------------------------------
\* Package
\* ------------------------------------------------------------------------
Package(name, version, architecture) ==
  [name |-> name, version |-> version, architecture |-> architecture,
   first_seen |-> None, hash |-> None]

\* ------------------------------------------------------------------------
\* Snapshot client: get_bin_date
\* A snapshot answer: json = FALSE when the body is not JSON;
\* result = the 'result' array; fileinfo = the 'fileinfo' object.
\* ------------------------------------------------------------------------
FirstMatch(result, pkgarch) ==
  LET idx == {i \in 1..Len(result) : result[i].architecture = pkgarch}
  IN IF idx = {} THEN None
     ELSE result[CHOOSE i \in idx : \A j \in idx : i <= j].hash

DebianEntries(entries) ==
  SeqFilter(entries, {e \in Range(entries) : e.archive_name = "debian"})

\* the tail of get_bin_date, once pkghash and the architecture are chosen
BinDateFromMain(package, data, pkghash, arch) ==
  LET package_from_main == DebianEntries(data.fileinfo[pkghash])
      p == [package EXCEPT !.architecture = arch]
  IN IF ~data.has_fileinfo THEN [err |-> "KeyError", pkg |-> p]
     ELSE IF Len(package_from_main) > 1
       THEN [err |-> "AmbiguousBinary", pkg |-> p]
     ELSE IF Len(package_from_main) = 0
       THEN [err |-> "NoBinaryFound", pkg |-> p]
     ELSE [err |-> "",
           pkg |-> [p EXCEPT !.first_seen = package_from_main[1].first_seen,
                             !.hash = pkghash]]

\* a single-result branch that checks only an explicitly recorded architecture
SingleArchError_ExplicitOnly(pkgarch, build_arch, found) ==
  IF pkgarch # None /\ pkgarch # found THEN "ArchMismatchExplicit" ELSE ""

\* the architecture test of the single-result branch
SingleArchError(pkgarch, build_arch, found) ==
  IF pkgarch # None /\ pkgarch # found THEN "ArchMismatchExplicit"
  ELSE IF pkgarch = None /\ build_arch # found /\ "all" # found
    THEN "ArchMismatchImplicit"
  ELSE ""

\* result: err = "" on return, else the error raised; pkg = the package as
\* the call leaves it
GetBinDate(package, build_arch, data) ==
  LET pkgarch == package.architecture IN
  IF ~data.json THEN [err |-> "BadJSON", pkg |-> package]
  ELSE IF Len(data.result) = 1 THEN
    LET found == data.result[1].architecture
        e == SingleArchError(pkgarch, build_arch, found)
    IN IF e # ""
         THEN [err |-> e, pkg |-> [package EXCEPT !.architecture = found]]
       ELSE BinDateFromMain(package, data, data.result[1].hash, found)
  ELSE
    LET target == IF pkgarch = None THEN build_arch ELSE pkgarch
        pkghash == FirstMatch(data.result, target)
    IN IF pkghash = None
         THEN [err |-> "NoArchMatch", pkg |-> package]
       ELSE BinDateFromMain(package, data, pkghash, target)

\* ------------------------------------------------------------------------
\* Resolver: buckets and candidate order
\* ------------------------------------------------------------------------
\* packages are referred to by their position in build_depends (the source
\* compares Package objects by identity)

\* get_build_depends_timestamps, first loop: resolve every package in input
\* order; stop at the first error
RECURSIVE ResolveAll(_, _, _, _)
ResolveAll(deps, build_arch, answers, i) ==
  IF i > Len(deps) THEN [err |-> "", deps |-> deps]
  ELSE IF deps[i].first_seen # None
    THEN ResolveAll(deps, build_arch, answers, i + 1)
  ELSE LET r == GetBinDate(deps[i], build_arch, answers[i])
       IN IF r.err # ""
            THEN [err |-> r.err, deps |-> [deps EXCEPT ![i] = r.pkg]]
          ELSE ResolveAll([deps EXCEPT ![i] = r.pkg], build_arch, answers,
                          i + 1)

\* the number of requests the loop sent: one per package without first_seen,
\* up to and including the one that failed
ResolveQueries(r) ==
  Cardinality({i \in 1..Len(r.deps) : r.deps[i].first_seen # None})
    + (IF r.err # "" THEN 1 ELSE 0)

\* the dict built by setdefault(...).append(pkg): keys in order of first
\* occurrence, each with its packages in input order
RECURSIVE Buckets(_, _, _)
Buckets(deps, i, acc) ==
  IF i > Len(deps) THEN acc
  ELSE LET ts == FormatTimestamp(deps[i].first_seen)
           at == {k \in 1..Len(acc) : acc[k].timestamp = ts}
       IN IF at = {}
            THEN Buckets(deps, i + 1,
                         Append(acc, [timestamp |-> ts, pkgs |-> <<i>>]))
          ELSE LET k == CHOOSE k \in at : TRUE
               IN Buckets(deps, i + 1,
                          [acc EXCEPT ![k].pkgs = Append(@, i)])

\* sorted(..., key=len(pkgs), reverse=True): a stable sort, so buckets of
\* equal size keep their dict order
\* an insertion that puts a bucket before the earlier buckets of its size
InsertByLen_Unstable(sorted, b) ==
  LET before == {k \in 1..Len(sorted) : Len(sorted[k].pkgs) > Len(b.pkgs)}
  IN SubSeq(sorted, 1, Cardinality(before)) \o <<b>>
       \o SubSeq(sorted, Cardinality(before) + 1, Len(sorted))

RECURSIVE InsertByLen(_, _)
InsertByLen(sorted, b) ==
  IF sorted = <<>> THEN <<b>>
  ELSE IF Len(Head(sorted).pkgs) >= Len(b.pkgs)
    THEN <<Head(sorted)>> \o InsertByLen(Tail(sorted), b)
  ELSE <<b>> \o sorted

RECURSIVE SortByLen(_, _)
SortByLen(buckets, acc) ==
  IF buckets = <<>> THEN acc
  ELSE SortByLen(Tail(buckets), InsertByLen(acc, Head(buckets)))

get_build_depends_timestamps(deps) == SortByLen(Buckets(deps, 1, <<>>), <<>>)

\* "deb <base_mirror>/<timestamp> unstable main"
TimestampSource(ts) == <<"deb", ts, "unstable", "main">>

get_sources_list_from_timestamp(deps) ==
  LET tss == get_build_depends_timestamps(deps)
  IN [k \in 1..Len(tss) |->
        [source |-> TimestampSource(tss[k].timestamp), pkgs |-> tss[k].pkgs]]

\* ------------------------------------------------------------------------
\* BuildInfo.get_debian_suite
\* a version is the sequence of its dot-separated numbers: 11.1 is <<11, 1>>
\* ------------------------------------------------------------------------
DEBIAN_VERSION ==
  [v \in {<<k>> : k \in 6..12} |->
     CASE v = <<6>> -> "squeeze"
       [] v = <<7>> -> "wheezy"
       [] v = <<8>> -> "jessie"
       [] v = <<9>> -> "stretch"
       [] v = <<10>> -> "buster"
       [] v = <<11>> -> "bullseye"
       [] v = <<12>> -> "bookworm"]

\* the loop over build_depends: every base-files entry is looked up with
\* its whole version string as key; a KeyError raises
RECURSIVE SuiteLoop(_, _, _)
SuiteLoop(deps, i, suite) ==
  IF i > Len(deps) THEN [err |-> "", suite |-> suite]
  ELSE IF deps[i].name = "base-files"
    THEN IF deps[i].version \in DOMAIN DEBIAN_VERSION
           THEN SuiteLoop(deps, i + 1, DEBIAN_VERSION[deps[i].version])
         ELSE [err |-> "UnknownBaseFiles", suite |-> suite]
  ELSE SuiteLoop(deps, i + 1, suite)

get_debian_suite(bi) ==
  IF bi.debian_suite # None THEN [err |-> "", suite |-> bi.debian_suite]
  ELSE SuiteLoop(bi.build_depends, 1, None)

\* ------------------------------------------------------------------------
\* Rebuilder.get_sources_list
\* ------------------------------------------------------------------------
\* release_ok: the answer of the mirror to the Release probe
get_sources_list(bi, release_ok) ==
  LET s == get_debian_suite(bi)
      snapshot_lines ==
        IF release_ok
          THEN << <<"deb", bi.build_date, s.suite, "main">>,
                  <<"deb-src", bi.build_date, "unstable", "main">> >>
        ELSE <<>>
  IN [err |-> s.err, suite |-> s.suite,
      lines |-> IF s.err # "" THEN <<>>
                ELSE snapshot_lines
                       \o << <<"deb-src", "deb.debian.org", s.suite, "main">> >>]

\* ------------------------------------------------------------------------
\* Snapshot client: get_src_date
\* an answer: result = the hashes of 'result'; fileinfo = the entries per
\* hash; listed = the hashes 'fileinfo' has a key for
\* ------------------------------------------------------------------------
DscFromMain(entries) ==
  SeqFilter(entries, {e \in Range(entries) :
                        e.archive_name = "debian" /\ e.dsc})

RECURSIVE SrcFromMain(_, _, _)
SrcFromMain(data, i, acc) ==
  IF i > Len(data.result) THEN [err |-> "", vals |-> acc]
  ELSE IF data.result[i] \notin data.listed
    THEN [err |-> "TypeError", vals |-> acc]
  ELSE SrcFromMain(data, i + 1,
                   acc \o DscFromMain(data.fileinfo[data.result[i]]))

get_src_date(data) ==
  IF ~data.json THEN RebuilderException("BadJSON")
  ELSE LET r == SrcFromMain(data, 1, <<>>)
       IN IF r.err # "" THEN OtherException(r.err)
          ELSE IF Len(r.vals) > 1 THEN RebuilderException("AmbiguousSource")
          ELSE IF Len(r.vals) = 0 THEN RebuilderException("NoSourceFound")
          ELSE NoExc

\* ------------------------------------------------------------------------
\* Checksum verifier: verify_checksums
\* a checksums dict is the sequence of its items in insertion order; each
\* item has the file name (<<stem, extension>>) and its properties in
\* insertion order
\* ------------------------------------------------------------------------
Keys(d) == [k \in 1..Len(d) |-> d[k].file]
HasKey(d, f) == \E k \in 1..Len(d) : d[k].file = f
Item(d, f) == d[CHOOSE k \in 1..Len(d) : d[k].file = f].props
HasProp(props, name) == \E k \in 1..Len(props) : props[k].prop = name
PropValue(props, name) ==
  props[CHOOSE k \in 1..Len(props) : props[k].prop = name].value
EndsWithDsc(f) == f[2] = ".dsc"

\* the inner loop over the properties of one original file
RECURSIVE VerifyProps(_, _, _, _)
VerifyProps(f, props, new, i) ==
  IF i > Len(props) THEN "OK"
  ELSE IF ~HasKey(new, f) THEN "KeyError"
  ELSE LET prop == props[i].prop
           theirs == Item(new, f)
       IN IF prop = "size" /\ props[i].value # PropValue(theirs, "size")
            THEN "SizeDiffers"
          ELSE IF ~HasProp(theirs, prop) THEN "MissingChecksumAlg"
          ELSE IF props[i].value # PropValue(theirs, prop)
            THEN "ChecksumDiffers"
          ELSE VerifyProps(f, props, new, i + 1)

RECURSIVE VerifyFiles(_, _, _)
VerifyFiles(files, orig, new) ==
  IF files = <<>> THEN "OK"
  ELSE LET r == VerifyProps(Head(files), Item(orig, Head(files)), new, 1)
       IN IF r # "OK" THEN r ELSE VerifyFiles(Tail(files), orig, new)

\* the outcome: "OK", or the error raised
verify_checksums(orig, new) ==
  LET files == SeqFilter(Keys(orig),
                         {f \in Range(Keys(orig)) : ~EndsWithDsc(f)})
      new_files == Keys(new)
  IN IF Len(files) # Len(new_files) THEN "FileCountDiffers"
     ELSE VerifyFiles(files, orig, new)

\* ------------------------------------------------------------------------
\* Build plan
\* ------------------------------------------------------------------------
EnvVars == {"PATH", "TMPDIR", "LANG", "LD_PRELOAD", "DEB_BUILD_OPTIONS"}

\* self.tmpdir = os.environ.get('TMPDIR', '/tmp')
Tmpdir(parent) == IF parent["TMPDIR"] = None THEN "/tmp" ELSE parent["TMPDIR"]

\* Package.to_apt_install_format
to_apt_install_format(pkg, build_arch) ==
  IF pkg.architecture = "all" \/ pkg.architecture = build_arch
    THEN <<pkg.name, pkg.version>>
  ELSE <<pkg.name, pkg.architecture, pkg.version>>

get_apt_build_depends(bi) ==
  [i \in 1..Len(bi.build_depends) |->
     to_apt_install_format(bi.build_depends[i], bi.build_arch)]

\* a mode selection that never passes "all" or "source" on
mmdebstrap_build_AlwaysBinary(build_arch) == "binary"

\* mmdebstrap: the --build mode from the build_arch run hands over
mmdebstrap_build(build_arch) ==
  IF build_arch \in {"source", "all", "any"} THEN build_arch ELSE "binary"

\* the environment mmdebstrap runs with: env -i PATH=... TMPDIR=...
MmdebstrapEnv(tmp) ==
  [v \in EnvVars |->
     IF v = "PATH" THEN "/usr/sbin:/usr/bin:/sbin:/bin"
     ELSE IF v = "TMPDIR" THEN tmp ELSE None]

\* the environment sbuild runs with: sudo env --chdir=<output> KEY="VAL"...
\* without -i; keeps = the variables the host's sudo policy lets through
SbuildEnv(parent, keeps, bienv) ==
  [v \in EnvVars |->
     IF \E k \in 1..Len(bienv) : bienv[k].key = v
       THEN bienv[CHOOSE k \in 1..Len(bienv) : bienv[k].key = v].value
     ELSE IF v \in keeps THEN parent[v] ELSE None]

\* sudo with env_reset keeps its env_keep/env_check list; with setenv or
\* !env_reset it keeps everything
SudoPolicies == {{"PATH", "LANG"}, EnvVars}

\* ------------------------------------------------------------------------
\* Rebuilder.run, before the setup stage
\* ------------------------------------------------------------------------
NoPath == <<>>

\* machine_arch = the output of dpkg --print-architecture, None when dpkg
\* is not installed
RunBuildArch(bi, machine_arch) ==
  IF bi.architecture # <<>>
    THEN IF machine_arch = None
           THEN [err |-> "NoHostArchitecture", build_arch |-> None]
         ELSE [err |-> "", build_arch |-> machine_arch]
  ELSE IF bi.build_archall THEN [err |-> "", build_arch |-> "all"]
  ELSE IF bi.build_source THEN [err |-> "", build_arch |-> "source"]
  ELSE [err |-> "NothingToBuild", build_arch |-> None]

\* "<output>/<source>_<version>_<build_arch>.buildinfo"
NewBuildinfoFile(bi, build_arch) ==
  <<"output", bi.source, bi.version, build_arch, ".buildinfo">>

\* a run that never looks for an existing file
RefusesOverwrite_Never(file, files) == FALSE

\* os.path.exists(new_buildinfo_file)
RefusesOverwrite(file, files) == file \in files

\* ------------------------------------------------------------------------
\* Rebuilder.run, leaving the setup stage (except clauses and finally)
\* ------------------------------------------------------------------------
TranslateSetupExc(e) ==
  IF e.type \in {"apt_pkg.Error", "FetchFailedException", "ConnectionError"}
    THEN RebuilderException("Failed to fetch packages")
  ELSE IF e.type = "KeyboardInterrupt" THEN RebuilderException("Interruption")
  ELSE e

\* tempaptdir.startswith(os.path.join(tmpdir, 'debrebuild-'))
InTempPrefix(dir, tmp) ==
  dir # NoPath /\ dir[1] = tmp /\ dir[2] = "debrebuild-"

\* a cleanup placed after the try statement instead of in its finally
DirsAfterSetup_OnSuccessOnly(dirs, dir, tmp, e) ==
  IF e = NoExc /\ InTempPrefix(dir, tmp) THEN dirs \ {dir} ELSE dirs

\* the directories left by the finally clause; e = the exception in flight
DirsAfterSetup(dirs, dir, tmp, e) ==
  IF InTempPrefix(dir, tmp) THEN dirs \ {dir} ELSE dirs

\* ------------------------------------------------------------------------
\* BuildInfo.__init__: the parser
\* a line of text is the sequence of its characters
\* ------------------------------------------------------------------------
\* the double-quote character
Quote == "dquote"

RECURSIVE LStrip(_)
LStrip(s) ==
  IF s # <<>> /\ Head(s) = " " THEN LStrip(Tail(s)) ELSE s

RECURSIVE RStrip(_)
RStrip(s) ==
  IF s # <<>> /\ s[Len(s)] = " " THEN RStrip(SubSeq(s, 1, Len(s) - 1)) ELSE s

\* str.strip()
Strip(s) == RStrip(LStrip(s))

\* re.match(r'^[^=](.*)="(.*)"', line): one character that is not "=", then
\* the longest group 1 that is followed by "=", a double quote and a later
\* double quote, then the longest group 2 that is followed by a double quote
EnvMatch(line) ==
  LET eqs == {i \in 2..(Len(line) - 2) :
                /\ line[i] = "="
                /\ line[i + 1] = Quote
                /\ \E j \in (i + 2)..Len(line) : line[j] = Quote}
      i == CHOOSE x \in eqs : \A y \in eqs : y <= x
      ends == {j \in (i + 2)..Len(line) : line[j] = Quote}
      j == CHOOSE x \in ends : \A y \in ends : y <= x
  IN IF line = <<>> THEN [matched |-> FALSE, key |-> <<>>, value |-> <<>>]
     ELSE IF line[1] = "=" \/ eqs = {}
       THEN [matched |-> FALSE, key |-> <<>>, value |-> <<>>]
     ELSE [matched |-> TRUE,
           key |-> Strip(SubSeq(line, 2, i - 1)),
           value |-> Strip(SubSeq(line, i + 2, j - 1))]

\* self.env[key] = value on a dict kept in insertion order
EnvSet(env, key, value) ==
  IF \E k \in 1..Len(env) : env[k].key = key
    THEN [k \in 1..Len(env) |->
            IF env[k].key = key THEN [key |-> key, value |-> value]
            ELSE env[k]]
  ELSE Append(env, [key |-> key, value |-> value])

\* the loop over the lines of the Environment field
RECURSIVE ParseEnvironment(_, _)
ParseEnvironment(lines, env) ==
  IF lines = <<>> THEN env
  ELSE LET m == EnvMatch(Head(lines))
       IN ParseEnvironment(Tail(lines),
                           IF m.matched THEN EnvSet(env, m.key, m.value)
                           ELSE env)

\* dict.update of one property of a checksums entry
PropSet(props, name, value) ==
  IF \E k \in 1..Len(props) : props[k].prop = name
    THEN [k \in 1..Len(props) |->
            IF props[k].prop = name THEN [prop |-> name, value |-> value]
            ELSE props[k]]
  ELSE Append(props, [prop |-> name, value |-> value])

\* one line "<hash> <size> <file>" of a Checksums-<alg> block: the entry of
\* the file is created when missing, then size and <alg> are overwritten
ChecksumSet(checksums, alg, line) ==
  LET f == line[3]
      old == IF \E k \in 1..Len(checksums) : checksums[k].file = f
               THEN checksums[CHOOSE k \in 1..Len(checksums) :
                                checksums[k].file = f].props
             ELSE <<>>
      props == PropSet(PropSet(old, "size", line[2]), alg, line[1])
  IN IF \E k \in 1..Len(checksums) : checksums[k].file = f
       THEN [k \in 1..Len(checksums) |->
               IF checksums[k].file = f THEN [file |-> f, props |-> props]
               ELSE checksums[k]]
     ELSE Append(checksums, [file |-> f, props |-> props])

\* the lines of one block; a line of fewer than three words is an IndexError
RECURSIVE ParseBlock(_, _, _)
ParseBlock(checksums, alg, lines) ==
  IF lines = <<>> THEN [err |-> "", checksums |-> checksums]
  ELSE IF Len(Head(lines)) < 3
    THEN [err |-> "IndexError", checksums |-> checksums]
  ELSE ParseBlock(ChecksumSet(checksums, alg, Head(lines)), alg, Tail(lines))

\* the Checksums-<alg> fields in the order of the file
RECURSIVE ParseChecksums(_, _)
ParseChecksums(blocks, checksums) ==
  IF blocks = <<>> THEN [err |-> "", checksums |-> checksums]
  ELSE LET r == ParseBlock(checksums, Head(blocks).alg, Head(blocks).lines)
       IN IF r.err # "" THEN r
          ELSE ParseChecksums(Tail(blocks), r.checksums)

\* the Installed-Build-Depends lines: parsePkgBuildDepend yields a Package or
\* nothing
RECURSIVE ParseDepends(_, _)
ParseDepends(lines, deps) ==
  IF lines = <<>> THEN [err |-> "", deps |-> deps]
  ELSE IF ~Head(lines).parses THEN [err |-> "InvalidField", deps |-> deps]
  ELSE ParseDepends(Tail(lines),
                    Append(deps, Package(Head(lines).name,
                                         Head(lines).version, None)))

CountOf(seq, x) == Cardinality({i \in 1..Len(seq) : seq[i] = x})

\* BuildInfo(file) for the document the file holds: exc = the exception
\* raised (NoExc on success), bi = the object
ParseBuildInfo(doc) ==
  LET c == ParseChecksums(doc.checksums, <<>>)
      d == ParseDepends(doc.depends, <<>>)
      concrete == SeqFilter(doc.architecture,
                            Range(doc.architecture) \ {"source", "all"})
      bi == [source |-> doc.source, version |-> doc.version,
             architecture |-> concrete,
             build_archall |-> CountOf(doc.architecture, "all") = 1,
             build_source |-> CountOf(doc.architecture, "source") = 1,
             build_archany |-> Len(concrete) = 1,
             build_arch |-> doc.build_arch,
             host_arch |-> IF doc.host_arch = None THEN doc.build_arch
                           ELSE doc.host_arch,
             build_date |-> doc.build_date,
             build_depends |-> d.deps, debian_suite |-> None,
             checksums |-> c.checksums,
             env |-> ParseEnvironment(doc.environment, <<>>)]
  IN IF ~doc.exists
       THEN [exc |-> BuildInfoException("NoBuildinfoFile"), bi |-> bi]
     ELSE IF c.err # "" THEN [exc |-> OtherException(c.err), bi |-> bi]
     ELSE IF d.err # "" THEN [exc |-> BuildInfoException(d.err), bi |-> bi]
     ELSE IF ~doc.has_architecture
       THEN [exc |-> OtherException("TypeError"), bi |-> bi]
     ELSE IF Len(concrete) > 1
       THEN [exc |-> BuildInfoException("MultipleArch"), bi |-> bi]
     ELSE IF doc.build_arch = None
       THEN [exc |-> BuildInfoException("MissingRequired"), bi |-> bi]
     ELSE [exc |-> NoExc, bi |-> bi]

\* Rebuilder.get_env: one word KEY="VALUE" per entry of the parsed env
get_env(env) ==
  [k \in 1..Len(env) |->
     env[k].key \o <<"=", Quote>> \o env[k].value \o <<Quote>>]

\* ------------------------------------------------------------------------
\* State
\* ------------------------------------------------------------------------
VARIABLES
  pc,                          \* position of the program
  buildinfo,                   \* self.buildinfo
  exc,                         \* the exception in flight, NoExc when none
  candidates,                  \* the list find_build_dependencies iterates
  ci,                          \* index of the next candidate
  notfound_packages,           \* local list of find_build_dependencies
  required_timestamp_sources,  \* self.required_timestamp_sources
  temp_sources_list,           \* lines of <tempaptdir>/etc/apt/sources.list
  refreshes,                   \* number of tempaptcache.update() calls
  found_at,                    \* per package: the source whose refresh found it
  reported,                    \* package names logged by the resolver
  tempaptdir,                  \* self.tempaptdir, NoPath while None
  tempaptcache,                \* self.tempaptcache: "none", "open", "closed"
  fs_dirs,                     \* directories that exist under the temp dir
  bin_call,                    \* one get_bin_date call: its input and outcome
  new_buildinfo,               \* the BuildInfo of the rebuilt .buildinfo
  verify_outcome,              \* outcome of verify_checksums, None before
  builder,                     \* argument of run
  machine_arch,                \* dpkg --print-architecture on this machine
  output_files,                \* .buildinfo files in the output directory
  run_build_arch,              \* local build_arch of run
  new_buildinfo_file,          \* local new_buildinfo_file of run
  snapshot_queries,            \* number of requests sent to the snapshot service
  parent_env,                  \* os.environ of two runs of the program
  launched,                    \* the builder commands launched
  document,                    \* the content of the input .buildinfo
  argv,                        \* the command line main was given
  buildinfo_file,              \* local buildinfo_file of Rebuilder.__init__
  tmp_files,                   \* files that exist in the temp dir
  exit_code,                   \* exit status of the program, None while running
  stderr,                      \* what the program wrote to stderr
  emitted_env                  \* the words get_env returned

resolverVars == <<candidates, ci, notfound_packages,
                  required_timestamp_sources, temp_sources_list, refreshes,
                  found_at, reported>>
aptVars == <<tempaptdir, tempaptcache, fs_dirs>>
binVars == <<bin_call>>
verifyVars == <<new_buildinfo, verify_outcome>>
argVars == <<builder, machine_arch, output_files, parent_env>>
runVars == <<run_build_arch, new_buildinfo_file, snapshot_queries, launched>>
mainVars == <<document, argv, buildinfo_file, tmp_files, exit_code, stderr,
              emitted_env>>
vars == <<pc, buildinfo, exc, resolverVars, aptVars, binVars, verifyVars,
          argVars, runVars, mainVars>>

\* ------------------------------------------------------------------------
\* Inputs
\* ------------------------------------------------------------------------
\* snapshot answers the resolver is run against
OneResult(arch, raw) ==
  [json |-> TRUE, has_fileinfo |-> TRUE,
   result |-> <<[hash |-> "h1", architecture |-> arch]>>,
   fileinfo |-> [h \in Hashes |->
                   IF h = "h1"
                     THEN <<[archive_name |-> "debian", first_seen |-> raw]>>
                   ELSE <<>>]]
EmptyAnswer ==
  [json |-> TRUE, has_fileinfo |-> TRUE, result |-> <<>>,
   fileinfo |-> [h \in Hashes |-> <<>>]]
NoFileAnswer ==
  [json |-> TRUE, has_fileinfo |-> TRUE,
   result |-> <<[hash |-> "h1", architecture |-> "amd64"]>>,
   fileinfo |-> [h \in Hashes |-> <<>>]]
ResolverAnswers ==
  {OneResult("amd64", raw) : raw \in RawSeen} \cup {EmptyAnswer, NoFileAnswer}

\* an Installed-Build-Depends list of n entries; base-files is at position
\* pos (absent when pos = 0)
Depends(n, pos, base_files_version) ==
  [i \in 1..n |->
     IF i = pos THEN Package("base-files", base_files_version, None)
     ELSE Package("dep" \o ToString(i), <<1>>, None)]

SeqsUpTo(S, n) == UNION {[1..k -> S] : k \in 0..n}

\* snapshot answers get_bin_date is run against
ResultEntries == [hash : Hashes, architecture : SnapshotArchs]
FileEntry(archive, raw) == [archive_name |-> archive, first_seen |-> raw]
FileinfoLists ==
  {<<>>, <<FileEntry("debian", "T1a")>>, <<FileEntry("debian-backports", "T1a")>>,
   <<FileEntry("debian", "T1a"), FileEntry("debian", "T2a")>>}
BinAnswers ==
  {[json |-> j, has_fileinfo |-> TRUE, result |-> r,
    fileinfo |-> [h \in Hashes |-> IF h = "h1" THEN f1 ELSE f2]] :
     j \in BOOLEAN, r \in SeqsUpTo(ResultEntries, MaxResults),
     f1 \in FileinfoLists, f2 \in {<<>>, <<FileEntry("debian", "T2a")>>}}
  \cup
  {[json |-> TRUE, has_fileinfo |-> FALSE, result |-> r,
    fileinfo |-> [h \in Hashes |-> <<>>]] :
     r \in SeqsUpTo(ResultEntries, 1)}

\* snapshot answers get_src_date is run against
SrcEntry(archive, dsc) ==
  [archive_name |-> archive, dsc |-> dsc, first_seen |-> "T1a"]
SrcAnswers ==
  {[json |-> j, result |-> <<"h1">>, listed |-> l,
    fileinfo |-> [h \in Hashes |-> IF h = "h1" THEN f ELSE <<>>]] :
     j \in BOOLEAN, l \in {{}, {"h1"}},
     f \in {<<>>, <<SrcEntry("debian", TRUE)>>,
            <<SrcEntry("debian", TRUE), SrcEntry("debian", FALSE)>>,
            <<SrcEntry("debian", TRUE), SrcEntry("debian", TRUE)>>}}

\* the environment of the parent process
DefaultEnv ==
  [v \in EnvVars |-> IF v = "PATH" THEN "/usr/bin" ELSE None]

BaseBuildInfo ==
  [source |-> "hello", version |-> <<2, 10>>,
   architecture |-> <<"amd64">>, build_archall |-> FALSE,
   build_source |-> FALSE, build_archany |-> TRUE, build_arch |-> "amd64",
   host_arch |-> "amd64",
   build_date |-> "D1", build_depends |-> <<>>, debian_suite |-> None,
   checksums |-> <<>>,
   env |-> <<[key |-> "DEB_BUILD_OPTIONS", value |-> "parallel=4"]>>]

NoBinCall ==
  [package |-> Package("none", <<0>>, None), build_arch |-> "amd64",
   data |-> EmptyAnswer,
   out |-> [err |-> "pending", pkg |-> Package("none", <<0>>, None)]]

\* the parts of the state an operation under study does not use
ResolverIdle ==
  /\ candidates = <<>>
  /\ ci = 0
  /\ notfound_packages = <<>>
  /\ required_timestamp_sources = <<>>
  /\ temp_sources_list = <<>>
  /\ refreshes = 0
  /\ found_at = [p \in 1..Len(buildinfo.build_depends) |-> <<>>]
  /\ reported = <<>>
AptIdle ==
  /\ tempaptdir = NoPath
  /\ tempaptcache = "none"
  /\ fs_dirs = {}
VerifyIdle ==
  /\ new_buildinfo = BaseBuildInfo
  /\ verify_outcome = None
ArgsIdle ==
  /\ builder = "none"
  /\ machine_arch = "amd64"
  /\ output_files = {}
  /\ parent_env = <<DefaultEnv, DefaultEnv>>
RunIdle ==
  /\ run_build_arch = None
  /\ new_buildinfo_file = NoPath
  /\ snapshot_queries = 0
  /\ launched = <<>>

\* a .buildinfo of an amd64 build without checksums, build-dependencies or
\* environment; env_entries are the variables the Environment field was
\* written from, environment its lines
BaseDocument ==
  [exists |-> TRUE, source |-> "hello", version |-> <<2, 10>>,
   has_architecture |-> TRUE, architecture |-> <<"amd64">>,
   build_arch |-> "amd64", host_arch |-> None, build_date |-> "D1",
   checksums |-> <<>>, depends |-> <<>>, env_entries |-> <<>>,
   environment |-> <<>>]

\* a local file, no signature check
DefaultArgv == [url |-> FALSE, gpg_verify |-> FALSE, gpg_verify_key |-> FALSE]

MainIdle ==
  /\ document = BaseDocument
  /\ argv = DefaultArgv
  /\ buildinfo_file = NoPath
  /\ tmp_files = {}
  /\ exit_code = None
  /\ stderr = <<>>
  /\ emitted_env = <<>>

\* ------------------------------------------------------------------------
\* find_build_dependencies
\* ------------------------------------------------------------------------
Indices(n) == [i \in 1..n |-> i]

\* entry: copy build_depends, open sources.list for append, resolve every
\* package (get_sources_list_from_timestamp)
FBD_Start ==
  /\ pc = "fbd_start"
  /\ \E answers \in [1..Len(buildinfo.build_depends) -> ResolverAnswers] :
       LET r == ResolveAll(buildinfo.build_depends, buildinfo.build_arch,
                           answers, 1)
       IN /\ buildinfo' = [buildinfo EXCEPT !.build_depends = r.deps]
          /\ notfound_packages' = Indices(Len(buildinfo.build_depends))
          /\ snapshot_queries' = snapshot_queries + ResolveQueries(r)
          /\ IF r.err # ""
               THEN /\ exc' = IF r.err = "KeyError" THEN OtherException(r.err)
                            ELSE RebuilderException(r.err)
                    /\ pc' = "setup_exit"
                    /\ UNCHANGED <<candidates, ci>>
             ELSE /\ candidates' = get_sources_list_from_timestamp(r.deps)
                  /\ ci' = 1
                  /\ pc' = "fbd_loop"
                  /\ UNCHANGED exc
  /\ UNCHANGED <<required_timestamp_sources, temp_sources_list, refreshes,
                 found_at, reported>>
  /\ UNCHANGED <<aptVars, binVars, mainVars, verifyVars, argVars, run_build_arch,
                 new_buildinfo_file, launched>>

Covers(c, notfound) == \E p \in Range(c.pkgs) : p \in Range(notfound)

\* a loop without the break on an empty notfound_packages
InLoop_NoBreak ==
  /\ pc = "fbd_loop"
  /\ ci <= Len(candidates)

InLoop ==
  /\ pc = "fbd_loop"
  /\ ci <= Len(candidates)
  /\ notfound_packages # <<>>

\* "Skipping snapshot": no package of the bucket is still missing
FBD_Skip ==
  /\ InLoop
  /\ ~Covers(candidates[ci], notfound_packages)
  /\ ci' = ci + 1
  /\ UNCHANGED <<pc, buildinfo, exc, candidates, notfound_packages,
                 required_timestamp_sources, temp_sources_list, refreshes,
                 found_at, reported>>
  /\ UNCHANGED <<aptVars, binVars, mainVars, verifyVars, argVars, runVars>>

\* a resolver that drops every missing package, whatever the cache holds
StillNotFound_DropAll(notfound, avail) == <<>>

\* packages left after the cache, which holds those of `avail`, was queried
StillNotFound(notfound, avail) ==
  SeqFilter(notfound, Range(notfound) \ avail)

\* the bucket is selected: append, write, refresh the cache, query it for
\* every missing package; the cache may hold any of them
FBD_Select ==
  /\ InLoop
  /\ Covers(candidates[ci], notfound_packages)
  /\ required_timestamp_sources' =
       Append(required_timestamp_sources, candidates[ci].source)
  /\ temp_sources_list' = Append(temp_sources_list, candidates[ci].source)
  /\ refreshes' = refreshes + 1
  /\ \E avail \in SUBSET Range(notfound_packages) :
       /\ notfound_packages' = StillNotFound(notfound_packages, avail)
       /\ found_at' = [p \in DOMAIN found_at |->
                         IF p \in avail THEN candidates[ci].source
                         ELSE found_at[p]]
  /\ tempaptcache' = "closed"
  /\ ci' = ci + 1
  /\ UNCHANGED <<pc, buildinfo, exc, candidates, reported, tempaptdir,
                 fs_dirs>>
  /\ UNCHANGED <<binVars, mainVars, verifyVars, argVars, runVars>>

\* the same, but tempaptcache.update() raises
FBD_FetchFailed ==
  /\ InLoop
  /\ Covers(candidates[ci], notfound_packages)
  /\ required_timestamp_sources' =
       Append(required_timestamp_sources, candidates[ci].source)
  /\ temp_sources_list' = Append(temp_sources_list, candidates[ci].source)
  /\ refreshes' = refreshes + 1
  /\ exc' = OtherException("FetchFailedException")
  /\ pc' = "setup_exit"
  /\ UNCHANGED <<buildinfo, candidates, ci, notfound_packages, found_at,
                 reported>>
  /\ UNCHANGED <<aptVars, binVars, mainVars, verifyVars, argVars, runVars>>

\* a resolver without the final check of notfound_packages
FBD_Outcome_NoCheck(notfound) == NoExc

\* what the code does once the loop is left
FBD_Outcome(notfound) ==
  IF notfound # <<>>
    THEN RebuilderException("UnresolvedDependencies")
  ELSE NoExc

\* the loop is left (break, or candidates exhausted)
FBD_End ==
  /\ pc = "fbd_loop"
  /\ (ci > Len(candidates) \/ notfound_packages = <<>>)
  /\ exc' = FBD_Outcome(notfound_packages)
  /\ reported' = [k \in 1..Len(notfound_packages) |->
                    buildinfo.build_depends[notfound_packages[k]].name]
  /\ pc' = IF exc' = NoExc THEN "fbd_returned" ELSE "setup_exit"
  /\ UNCHANGED <<buildinfo, candidates, ci, notfound_packages,
                 required_timestamp_sources, temp_sources_list, refreshes,
                 found_at>>
  /\ UNCHANGED <<aptVars, binVars, mainVars, verifyVars, argVars, runVars>>

\* ------------------------------------------------------------------------
\* The resolver alone
\* ------------------------------------------------------------------------
InitResolver ==
  /\ pc = "fbd_start"
  /\ \E n \in 0..MaxDeps :
       buildinfo = [BaseBuildInfo EXCEPT !.build_depends = Depends(n, 1, <<11>>)]
  /\ exc = NoExc
  /\ ResolverIdle
  /\ tempaptdir = <<"/tmp", "debrebuild-", "x">>
  /\ tempaptcache = "closed"
  /\ fs_dirs = {<<"/tmp", "debrebuild-", "x">>}
  /\ bin_call = NoBinCall
  /\ VerifyIdle
  /\ ArgsIdle
  /\ RunIdle
  /\ MainIdle

NextResolver ==
  \/ FBD_Start
  \/ FBD_Skip
  \/ FBD_Select
  \/ FBD_FetchFailed
  \/ FBD_End

SpecResolver == InitResolver /\ [][NextResolver]_vars

\* the resolver runs to its end: nothing suspends the call
SpecResolverLive == SpecResolver /\ WF_vars(NextResolver)

\* ------------------------------------------------------------------------
\* get_bin_date alone
\* ------------------------------------------------------------------------
BinDate_Call ==
  /\ pc = "bin_date"
  /\ bin_call' = [bin_call EXCEPT
                    !.out = GetBinDate(bin_call.package, bin_call.build_arch,
                                       bin_call.data)]
  /\ pc' = "bin_done"
  /\ UNCHANGED <<buildinfo, exc, resolverVars, aptVars, verifyVars, argVars,
                 runVars, mainVars>>

InitBinDate ==
  /\ pc = "bin_date"
  /\ \E arch \in SnapshotArchs \cup {None}, b \in Archs, d \in BinAnswers :
       bin_call = [package |-> Package("dep1", <<1>>, arch),
                   build_arch |-> b, data |-> d,
                   out |-> [err |-> "pending",
                            pkg |-> Package("dep1", <<1>>, arch)]]
  /\ buildinfo = BaseBuildInfo
  /\ exc = NoExc
  /\ ResolverIdle
  /\ AptIdle
  /\ VerifyIdle
  /\ ArgsIdle
  /\ RunIdle
  /\ MainIdle

NextBinDate == BinDate_Call

SpecBinDate == InitBinDate /\ [][NextBinDate]_vars

\* ------------------------------------------------------------------------
\* get_debian_suite alone
\* ------------------------------------------------------------------------
Suite_Get ==
  /\ pc = "suite"
  /\ LET r == get_debian_suite(buildinfo)
     IN /\ buildinfo' = [buildinfo EXCEPT !.debian_suite = r.suite]
        /\ exc' = IF r.err # "" THEN BuildInfoException(r.err) ELSE NoExc
  /\ pc' = "suite_done"
  /\ UNCHANGED <<resolverVars, aptVars, binVars, mainVars, verifyVars, argVars,
                 runVars>>

\* base-files versions: a bare major number, or major.minor
SuiteVersions ==
  {<<k>> : k \in 5..13} \cup {<<k, m>> : k \in 5..13, m \in {1, 3}}

InitSuite ==
  /\ pc = "suite"
  /\ \E n \in 1..MaxDeps, pos \in 0..MaxDeps, v \in SuiteVersions :
       /\ pos <= n
       /\ pos = 0 => v = <<11>>
       /\ buildinfo = [BaseBuildInfo EXCEPT
                         !.build_depends = Depends(n, pos, v)]
  /\ exc = NoExc
  /\ ResolverIdle
  /\ AptIdle
  /\ bin_call = NoBinCall
  /\ VerifyIdle
  /\ ArgsIdle
  /\ RunIdle
  /\ MainIdle

NextSuite == Suite_Get

SpecSuite == InitSuite /\ [][NextSuite]_vars

\* ------------------------------------------------------------------------
\* verify_checksums alone
\* ------------------------------------------------------------------------
Verify_Run ==
  /\ pc = "verify"
  /\ verify_outcome' =
       verify_checksums(buildinfo.checksums, new_buildinfo.checksums)
  /\ pc' = "verified"
  /\ UNCHANGED <<buildinfo, exc, new_buildinfo, resolverVars, aptVars,
                 binVars, mainVars, argVars, runVars>>

ChecksumFiles == {<<"a", ".deb">>, <<"b", ".deb">>, <<"a", ".dsc">>}
Prop(name, value) == [prop |-> name, value |-> value]
\* the properties of one file as the parser leaves them: size first, then
\* one entry per Checksums-<alg> block that lists the file
PropLists ==
  {<<Prop("size", s), Prop("sha256", h)>> : s \in {"1", "2"}, h \in {"x", "y"}}
  \cup
  {<<Prop("size", s), Prop("sha256", "x"), Prop("md5", "m")>> :
     s \in {"1", "2"}}
ChecksumDicts ==
  {d \in SeqsUpTo([file : ChecksumFiles, props : PropLists], MaxFiles) :
     \A i, k \in 1..Len(d) : d[i].file = d[k].file => i = k}

InitVerify ==
  /\ pc = "verify"
  /\ \E d1 \in ChecksumDicts, d2 \in ChecksumDicts :
       /\ buildinfo = [BaseBuildInfo EXCEPT !.checksums = d1]
       /\ new_buildinfo = [BaseBuildInfo EXCEPT !.checksums = d2]
  /\ verify_outcome = None
  /\ exc = NoExc
  /\ ResolverIdle
  /\ AptIdle
  /\ bin_call = NoBinCall
  /\ ArgsIdle
  /\ RunIdle
  /\ MainIdle

NextVerify == Verify_Run

SpecVerify == InitVerify /\ [][NextVerify]_vars

\* ------------------------------------------------------------------------
\* BuildInfo.__init__ alone, followed by get_env
\* ------------------------------------------------------------------------
Parse_BuildInfo ==
  /\ pc = "parse"
  /\ LET r == ParseBuildInfo(document)
     IN /\ buildinfo' = r.bi
        /\ exc' = r.exc
        /\ found_at' = [p \in 1..Len(r.bi.build_depends) |-> <<>>]
  /\ pc' = "parsed"
  /\ UNCHANGED <<candidates, ci, notfound_packages,
                 required_timestamp_sources, temp_sources_list, refreshes,
                 reported>>
  /\ UNCHANGED <<aptVars, binVars, mainVars, verifyVars, argVars, runVars>>

Plan_GetEnv ==
  /\ pc = "parsed"
  /\ exc = NoExc
  /\ emitted_env' = get_env(buildinfo.env)
  /\ pc' = "planned"
  /\ UNCHANGED <<buildinfo, exc, resolverVars, aptVars, binVars, verifyVars,
                 argVars, runVars, document, argv, buildinfo_file, tmp_files,
                 exit_code, stderr>>

\* variables of an Environment field: names, values (empty, with a blank at
\* either end, with an equals sign), and whether the line is a continuation
\* line (which starts with a blank) or shares the line of the field name
EnvKeys == {<<"A">>, <<"B">>, <<"A", "B">>}
EnvValues == {<<"v">>, <<>>, <<" ", "v">>, <<"v", " ">>, <<"v", "=", "w">>}
EnvEntries == [key : EnvKeys, value : EnvValues, folded : BOOLEAN]

\* the line of the field an entry is written as
EnvLine(e) ==
  (IF e.folded THEN <<" ">> ELSE <<>>)
    \o e.key \o <<"=", Quote>> \o e.value \o <<Quote>>

EnvDocs ==
  {[BaseDocument EXCEPT
      !.env_entries = es,
      !.environment = [k \in 1..Len(es) |-> EnvLine(es[k])]] :
     es \in {x \in SeqsUpTo(EnvEntries, MaxEnvLines) :
               /\ \A i, k \in 1..Len(x) : x[i].key = x[k].key => i = k
               /\ \A i \in 2..Len(x) : x[i].folded}}

\* Checksums-<alg> blocks: each line is <<hash, size, file>>; a field
\* without lines holds one empty line
ChecksumLines(alg) ==
  {<<alg \o "-hash", size, f>> :
     size \in {"1", "2"}, f \in {<<"a", ".deb">>, <<"b", ".deb">>}}

ChecksumDocs ==
  {[BaseDocument EXCEPT
      !.checksums = <<[alg |-> "md5", lines |-> l1],
                      [alg |-> "sha256", lines |-> l2]>>] :
     l1 \in SeqsUpTo(ChecksumLines("md5"), MaxFiles) \ {<<>>},
     l2 \in SeqsUpTo(ChecksumLines("sha256"), MaxFiles) \ {<<>>}}
  \cup
  {[BaseDocument EXCEPT
      !.checksums = <<[alg |-> "md5", lines |-> << <<>> >>]>>]}

\* Architecture and Build-Architecture fields
ArchDocs ==
  {[BaseDocument EXCEPT !.architecture = a, !.build_arch = b] :
     a \in {<<>>, <<"amd64">>, <<"all">>, <<"source">>, <<"amd64", "i386">>,
            <<"all", "amd64", "source">>},
     b \in {None, "amd64"}}
  \cup
  {[BaseDocument EXCEPT
      !.has_architecture = FALSE, !.architecture = <<>>, !.build_arch = b] :
     b \in {None, "amd64"}}

InitParse ==
  /\ pc = "parse"
  /\ document \in EnvDocs \cup ChecksumDocs \cup ArchDocs
  /\ buildinfo = BaseBuildInfo
  /\ exc = NoExc
  /\ ResolverIdle
  /\ AptIdle
  /\ bin_call = NoBinCall
  /\ VerifyIdle
  /\ ArgsIdle
  /\ RunIdle
  /\ argv = DefaultArgv
  /\ buildinfo_file = NoPath
  /\ tmp_files = {}
  /\ exit_code = None
  /\ stderr = <<>>
  /\ emitted_env = <<>>

NextParse ==
  \/ Parse_BuildInfo
  \/ Plan_GetEnv

SpecParse == InitParse /\ [][NextParse]_vars

\* ------------------------------------------------------------------------
\* Rebuilder.run
\* ------------------------------------------------------------------------
Builders == {"none", "mmdebstrap", "sbuild"}
SetupPcs == {"get_src_date", "prepare_aptcache", "prepare_fill",
             "fbd_start", "fbd_loop"}

\* the head of run: the predicted .buildinfo name and the overwrite check
Run_Start ==
  /\ pc = "run"
  /\ LET a == RunBuildArch(buildinfo, machine_arch)
         file == NewBuildinfoFile(buildinfo, a.build_arch)
     IN IF a.err # ""
          THEN /\ exc' = RebuilderException(a.err)
               /\ pc' = "raised"
               /\ UNCHANGED <<run_build_arch, new_buildinfo_file>>
        ELSE /\ run_build_arch' = a.build_arch
             /\ new_buildinfo_file' = file
             /\ IF RefusesOverwrite(file, output_files)
                  THEN /\ exc' = RebuilderException("RefuseOverwrite")
                       /\ pc' = "raised"
                ELSE /\ pc' = "get_src_date"
                     /\ UNCHANGED exc
  /\ UNCHANGED <<buildinfo, resolverVars, aptVars, binVars, mainVars, verifyVars,
                 argVars, snapshot_queries, launched>>

\* setup stage: get_src_date answers or raises
Setup_GetSrcDate ==
  /\ pc = "get_src_date"
  /\ snapshot_queries' = snapshot_queries + 1
  /\ \E data \in SrcAnswers :
       /\ exc' = get_src_date(data)
       /\ pc' = IF exc' = NoExc THEN "prepare_aptcache" ELSE "setup_exit"
  /\ UNCHANGED <<buildinfo, resolverVars, aptVars, binVars, mainVars, verifyVars,
                 argVars, run_build_arch, new_buildinfo_file, launched>>

\* setup stage: the request of get_src_date fails in the transport
Setup_GetSrcDateNoConnection ==
  /\ pc = "get_src_date"
  /\ snapshot_queries' = snapshot_queries + 1
  /\ exc' = OtherException("ConnectionError")
  /\ pc' = "setup_exit"
  /\ UNCHANGED <<buildinfo, resolverVars, aptVars, binVars, mainVars, verifyVars,
                 argVars, run_build_arch, new_buildinfo_file, launched>>

\* os.path.abspath of the directories TMPDIR names here: "tmp" is relative
AbsPath(dir) == IF dir = "tmp" THEN "/cwd/tmp" ELSE dir

\* tempfile.mkdtemp(prefix="debrebuild-", dir=tmp): a path is <<directory,
\* prefix, random name>>. The library returns the joined path as it is, or
\* (Python 3.12 and later) its absolute form.
MkdtempResults(tmp) ==
  {<<tmp, "debrebuild-", "x">>, <<AbsPath(tmp), "debrebuild-", "x">>}

\* prepare_aptcache: the ephemeral apt root is created
Prepare_Mkdtemp ==
  /\ pc = "prepare_aptcache"
  /\ \E dir \in MkdtempResults(Tmpdir(parent_env[1])) :
       /\ tempaptdir' = dir
       /\ fs_dirs' = fs_dirs \cup {dir}
  /\ pc' = "prepare_fill"
  /\ UNCHANGED <<buildinfo, exc, resolverVars, tempaptcache, binVars, mainVars,
                 verifyVars, argVars, runVars>>

\* prepare_aptcache: apt.conf, sources.list (get_sources_list), keyrings,
\* apt.Cache; the suite lookup or the cache may raise
Prepare_Fill ==
  /\ pc = "prepare_fill"
  /\ \E release_ok \in BOOLEAN, cache_ok \in BOOLEAN :
       LET sl == get_sources_list(buildinfo, release_ok)
       IN /\ buildinfo' = [buildinfo EXCEPT !.debian_suite = sl.suite]
          /\ IF sl.err # ""
               THEN /\ exc' = BuildInfoException(sl.err)
                    /\ pc' = "setup_exit"
                    /\ UNCHANGED <<temp_sources_list, tempaptcache>>
             ELSE /\ temp_sources_list' = sl.lines
                  /\ IF cache_ok
                       THEN /\ tempaptcache' = "closed"
                            /\ pc' = "fbd_start"
                            /\ UNCHANGED exc
                     ELSE /\ exc' = RebuilderException("AptCacheInitFailed")
                          /\ pc' = "setup_exit"
                          /\ UNCHANGED tempaptcache
  /\ UNCHANGED <<candidates, ci, notfound_packages,
                 required_timestamp_sources, refreshes, found_at, reported,
                 tempaptdir, fs_dirs>>
  /\ UNCHANGED <<binVars, mainVars, verifyVars, argVars, runVars>>

\* Ctrl-C while the setup stage waits for the network or the cache
Setup_Interrupt ==
  /\ pc \in SetupPcs
  /\ exc' = OtherException("KeyboardInterrupt")
  /\ pc' = "setup_exit"
  /\ UNCHANGED <<buildinfo, resolverVars, aptVars, binVars, mainVars, verifyVars,
                 argVars, runVars>>

\* the except clauses and the finally clause of the setup stage
Setup_Exit ==
  /\ pc \in {"setup_exit", "fbd_returned"}
  /\ exc' = TranslateSetupExc(exc)
  /\ fs_dirs' = DirsAfterSetup(fs_dirs, tempaptdir, Tmpdir(parent_env[1]), exc)
  /\ tempaptcache' =
       IF InTempPrefix(tempaptdir, Tmpdir(parent_env[1]))
            /\ tempaptcache # "none"
         THEN "closed" ELSE tempaptcache
  /\ pc' = IF exc = NoExc THEN "build" ELSE "raised"
  /\ UNCHANGED <<buildinfo, resolverVars, tempaptdir, binVars, mainVars, verifyVars,
                 argVars, runVars>>

\* build stage, builder "none": run returns
Build_None ==
  /\ pc = "build"
  /\ builder = "none"
  /\ pc' = "returned"
  /\ UNCHANGED <<buildinfo, exc, resolverVars, aptVars, binVars, mainVars, verifyVars,
                 argVars, runVars>>

\* what both builders do once the command is assembled: subprocess.run
Launch(cmd, returncode) ==
  /\ launched' = Append(launched, cmd)
  /\ IF returncode # 0
       THEN /\ exc' = RebuilderException("BuilderFailed")
            /\ pc' = "raised"
     ELSE /\ pc' = "post_build"
          /\ UNCHANGED exc

\* build stage, builder "mmdebstrap"
Build_Mmdebstrap ==
  /\ pc = "build"
  /\ builder = "mmdebstrap"
  /\ \E release_ok \in BOOLEAN, returncode \in {0, 1} :
       LET sl == get_sources_list(buildinfo, release_ok)
       IN Launch([builder |-> "mmdebstrap",
                  env |-> [r \in {1, 2} |->
                             MmdebstrapEnv(Tmpdir(parent_env[r]))],
                  arch |-> buildinfo.build_arch,
                  include |-> get_apt_build_depends(buildinfo),
                  sources_list |-> sl.lines \o required_timestamp_sources,
                  build |-> mmdebstrap_build(run_build_arch),
                  host_arch |-> buildinfo.host_arch,
                  dpkg_env |-> buildinfo.env],
                 returncode)
  /\ UNCHANGED <<buildinfo, resolverVars, aptVars, binVars, mainVars, verifyVars,
                 argVars, run_build_arch, new_buildinfo_file,
                 snapshot_queries>>

\* build stage, builder "sbuild"
Build_Sbuild ==
  /\ pc = "build"
  /\ builder = "sbuild"
  /\ \E release_ok \in BOOLEAN, returncode \in {0, 1},
        keeps \in SudoPolicies :
       LET sl == get_sources_list(buildinfo, release_ok)
       IN Launch([builder |-> "sbuild",
                  env |-> [r \in {1, 2} |->
                             SbuildEnv(parent_env[r], keeps, buildinfo.env)],
                  arch |-> buildinfo.build_arch,
                  include |-> get_apt_build_depends(buildinfo),
                  sources_list |-> sl.lines \o required_timestamp_sources,
                  build |-> <<buildinfo.build_source, buildinfo.build_archany,
                              buildinfo.build_archall>>,
                  host_arch |-> buildinfo.host_arch,
                  dpkg_env |-> buildinfo.env],
                 returncode)
  /\ UNCHANGED <<buildinfo, resolverVars, aptVars, binVars, mainVars, verifyVars,
                 argVars, run_build_arch, new_buildinfo_file,
                 snapshot_queries>>

\* the .buildinfo files a builder may leave: none, or one whose
\* Checksums-Sha256 block lists one file
NewDocuments ==
  {[BaseDocument EXCEPT !.exists = FALSE], BaseDocument}
  \cup
  {[BaseDocument EXCEPT
      !.checksums = <<[alg |-> "sha256", lines |-> <<l>>]>>] :
     l \in ChecksumLines("sha256")}

\* the exception verify_checksums leaves with
VerifyExc(outcome) ==
  IF outcome = "OK" THEN NoExc
  ELSE IF outcome = "KeyError" THEN OtherException("KeyError")
  ELSE RebuilderException(outcome)

\* post-build stage: parse the new .buildinfo, verify_checksums,
\* generate_intoto_metadata
Post_Build ==
  /\ pc = "post_build"
  /\ \E newdoc \in NewDocuments, returncode \in {0, 1} :
       LET r == ParseBuildInfo(newdoc)
           outcome == verify_checksums(buildinfo.checksums, r.bi.checksums)
       IN IF r.exc # NoExc
            THEN /\ exc' = r.exc
                 /\ pc' = "raised"
                 /\ UNCHANGED <<new_buildinfo, verify_outcome>>
          ELSE /\ new_buildinfo' = r.bi
               /\ verify_outcome' = outcome
               /\ exc' = IF outcome # "OK" THEN VerifyExc(outcome)
                         ELSE IF returncode # 0
                           THEN RebuilderException("IntotoFailed")
                         ELSE NoExc
               /\ pc' = IF exc' = NoExc THEN "returned" ELSE "raised"
  /\ UNCHANGED <<buildinfo, resolverVars, aptVars, binVars, mainVars, argVars,
                 runVars>>

\* the buildinfo files a run may find in the output directory
BuildinfoSuffixes == {"amd64", "all", "source"}

\* a parsed buildinfo with the given Architecture tokens
ParsedBuildInfo(concrete, archall, source, build_arch, deps) ==
  [BaseBuildInfo EXCEPT
     !.architecture = IF concrete THEN <<build_arch>> ELSE <<>>,
     !.build_archall = archall,
     !.build_archany = concrete,
     !.build_source = source,
     !.build_arch = build_arch,
     !.host_arch = build_arch,
     !.build_depends = deps]

Init ==
  /\ pc = "run"
  /\ \E concrete \in BOOLEAN, archall \in BOOLEAN, source \in BOOLEAN,
        b \in Archs, v \in {<<11>>, <<11, 1>>} :
       buildinfo = ParsedBuildInfo(concrete, archall, source, b,
                                   Depends(RunDeps, 1, v))
  /\ exc = NoExc
  /\ ResolverIdle
  /\ AptIdle
  /\ bin_call = NoBinCall
  /\ VerifyIdle
  /\ builder \in Builders
  /\ machine_arch \in Archs \cup {None}
  /\ buildinfo.architecture = <<>> => machine_arch = "amd64"
  /\ \E suffixes \in {{}} \cup {{x} : x \in BuildinfoSuffixes} :
       output_files = {NewBuildinfoFile(buildinfo, x) : x \in suffixes}
  /\ \E t \in {None, "tmp"} :
       parent_env = <<[DefaultEnv EXCEPT !["TMPDIR"] = t],
                      [DefaultEnv EXCEPT !["TMPDIR"] = t]>>
  /\ RunIdle
  /\ MainIdle

Next ==
  \/ Run_Start
  \/ Setup_GetSrcDate
  \/ Setup_GetSrcDateNoConnection
  \/ Prepare_Mkdtemp
  \/ Prepare_Fill
  \/ FBD_Start
  \/ FBD_Skip
  \/ FBD_Select
  \/ FBD_FetchFailed
  \/ FBD_End
  \/ Setup_Interrupt
  \/ Setup_Exit
  \/ Build_None
  \/ Build_Mmdebstrap
  \/ Build_Sbuild
  \/ Post_Build

Spec == Init /\ [][Next]_vars

\* ------------------------------------------------------------------------
\* main: argument checks, Rebuilder.__init__, run, exit status
\* ------------------------------------------------------------------------
\* the argument checks of main
Main_Start ==
  /\ pc = "main"
  /\ IF builder \notin Builders
       THEN /\ stderr' = Append(stderr, [kind |-> "error",
                                          msg |-> "UnknownBuilder"])
            /\ exit_code' = 1
            /\ pc' = "exited"
     ELSE IF argv.gpg_verify /\ ~argv.gpg_verify_key
       THEN /\ stderr' = Append(stderr, [kind |-> "error",
                                          msg |-> "NoKeyring"])
            /\ exit_code' = 1
            /\ pc' = "exited"
     ELSE /\ pc' = "construct"
          /\ UNCHANGED <<stderr, exit_code>>
  /\ UNCHANGED <<buildinfo, exc, resolverVars, aptVars, binVars, verifyVars,
                 argVars, runVars, document, argv, buildinfo_file, tmp_files,
                 emitted_env>>

\* tempfile.mkstemp(prefix="buildinfo-", dir=tmp), as mkdtemp above
MkstempResults(tmp) ==
  {<<tmp, "buildinfo-", "y">>, <<AbsPath(tmp), "buildinfo-", "y">>}

\* buildinfo_file.startswith(os.path.join(tmpdir, 'buildinfo-'))
InBuildinfoPrefix(file, tmp) ==
  file # NoPath /\ file[1] = tmp /\ file[2] = "buildinfo-"

\* the files left when __init__ is left with exception e (NoExc on return):
\* os.remove is the last statement
FilesAfterInit(files, file, tmp, e) ==
  IF e = NoExc /\ InBuildinfoPrefix(file, tmp) THEN files \ {file} ELSE files

\* the signature check of __init__
GpgExc(gpg) ==
  CASE gpg = "ok" -> NoExc
    [] gpg = "import_error" -> RebuilderException("GpgImportFailed")
    [] gpg = "verify_failure" -> RebuilderException("GpgVerifyFailed")

\* Rebuilder.__init__: download of a remote buildinfo, signature check,
\* parse, removal of the downloaded copy
Construct ==
  /\ pc = "construct"
  /\ \E http \in {"ok", "ConnectionError", "HTTPError"},
        file \in MkstempResults(Tmpdir(parent_env[1])),
        gpg \in {"ok", "import_error", "verify_failure"} :
       LET tmp == Tmpdir(parent_env[1])
           downloaded == argv.url /\ http = "ok"
           path == IF argv.url THEN file ELSE <<"/cwd", "input", ".buildinfo">>
           files == IF downloaded THEN tmp_files \cup {file} ELSE tmp_files
           checked == argv.gpg_verify /\ argv.gpg_verify_key
           r == ParseBuildInfo(document)
           e == IF argv.url /\ http # "ok"
                  THEN RebuilderException("CannotGetBuildinfo")
                ELSE IF checked /\ GpgExc(gpg) # NoExc THEN GpgExc(gpg)
                ELSE r.exc
       IN /\ ~argv.url => (http = "ok" /\ file[1] = tmp)
          /\ ~checked => gpg = "ok"
          /\ argv.url => document.exists
          /\ buildinfo_file' = IF argv.url /\ ~downloaded THEN NoPath ELSE path
          /\ tmp_files' = FilesAfterInit(files, path, tmp, e)
          /\ exc' = e
          /\ buildinfo' = IF e = NoExc THEN r.bi ELSE buildinfo
          /\ found_at' = IF e = NoExc
                           THEN [p \in 1..Len(r.bi.build_depends) |-> <<>>]
                         ELSE found_at
          /\ pc' = IF e = NoExc THEN "run" ELSE "raised"
  /\ UNCHANGED <<candidates, ci, notfound_packages,
                 required_timestamp_sources, temp_sources_list, refreshes,
                 reported>>
  /\ UNCHANGED <<aptVars, binVars, verifyVars, argVars, runVars, document,
                 argv, exit_code, stderr, emitted_env>>

\* the except clause of main and the exit status of the interpreter: a
\* RebuilderException is logged and main returns 1; any other exception
\* leaves main and the interpreter prints its traceback
Main_Exit ==
  /\ pc \in {"returned", "raised"}
  /\ IF exc = NoExc
       THEN /\ exit_code' = 0
            /\ UNCHANGED stderr
     ELSE IF exc.type = "RebuilderException"
       THEN /\ exit_code' = 1
            /\ stderr' = Append(stderr, [kind |-> "error", msg |-> exc.msg])
     ELSE /\ exit_code' = 1
          /\ stderr' = Append(stderr, [kind |-> "traceback",
                                       msg |-> exc.type])
  /\ pc' = "exited"
  /\ UNCHANGED <<buildinfo, exc, resolverVars, aptVars, binVars, verifyVars,
                 argVars, runVars, document, argv, buildinfo_file, tmp_files,
                 emitted_env>>

\* Installed-Build-Depends lines: n entries with base-files at position pos
DocDepends(n, pos, base_files_version, parses) ==
  [i \in 1..n |->
     IF i = pos
       THEN [parses |-> TRUE, name |-> "base-files",
             version |-> base_files_version]
     ELSE [parses |-> parses, name |-> "dep" \o ToString(i),
           version |-> <<1>>]]

\* the input documents of a whole program run
GoodDocument ==
  [BaseDocument EXCEPT
     !.depends = DocDepends(RunDeps, 1, <<11>>, TRUE),
     !.checksums = <<[alg |-> "sha256",
                      lines |-> << <<"sha256-hash", "1", <<"a", ".deb">>>> >>]>>]

MainDocs ==
  {GoodDocument,
   [GoodDocument EXCEPT !.exists = FALSE],
   [GoodDocument EXCEPT !.depends = DocDepends(RunDeps, 1, <<11, 1>>, TRUE)],
   [GoodDocument EXCEPT !.depends = DocDepends(RunDeps, 1, <<11>>, FALSE)],
   [GoodDocument EXCEPT !.architecture = <<"amd64", "i386">>],
   [GoodDocument EXCEPT !.architecture = <<>>],
   [GoodDocument EXCEPT !.build_arch = None]}

InitMain ==
  /\ pc = "main"
  /\ document \in MainDocs
  /\ argv \in [url : BOOLEAN, gpg_verify : BOOLEAN, gpg_verify_key : BOOLEAN]
  /\ argv.url => document.exists
  /\ builder \in Builders \cup {"docker"}
  /\ machine_arch = "amd64"
  /\ output_files = {}
  /\ parent_env = <<DefaultEnv, DefaultEnv>>
  /\ buildinfo = BaseBuildInfo
  /\ exc = NoExc
  /\ ResolverIdle
  /\ AptIdle
  /\ bin_call = NoBinCall
  /\ VerifyIdle
  /\ RunIdle
  /\ buildinfo_file = NoPath
  /\ tmp_files = {}
  /\ exit_code = None
  /\ stderr = <<>>
  /\ emitted_env = <<>>

NextMain ==
  \/ Main_Start
  \/ Construct
  \/ Next
  \/ Main_Exit

SpecMain == InitMain /\ [][NextMain]_vars

\* ------------------------------------------------------------------------
\* The build stage alone, for parents with different environments
\* ------------------------------------------------------------------------
ParentEnvs ==
  {[v \in EnvVars |->
      CASE v = "PATH" -> "/usr/bin"
        [] v = "TMPDIR" -> t
        [] v = "LANG" -> l
        [] v = "LD_PRELOAD" -> p
        [] OTHER -> None] :
     t \in {None, "/var/tmp"}, l \in {None, "C"}, p \in {None, "x.so"}}

InitPlan ==
  /\ pc = "build"
  /\ \E concrete \in BOOLEAN, archall \in BOOLEAN, source \in BOOLEAN,
        b \in Archs :
       /\ concrete \/ archall \/ source
       /\ buildinfo = ParsedBuildInfo(concrete, archall, source, b, <<>>)
  /\ machine_arch \in Archs
  /\ run_build_arch = RunBuildArch(buildinfo, machine_arch).build_arch
  /\ new_buildinfo_file = NewBuildinfoFile(buildinfo, run_build_arch)
  /\ exc = NoExc
  /\ ResolverIdle
  /\ \E e1 \in ParentEnvs, e2 \in ParentEnvs :
       /\ e1["PATH"] = e2["PATH"]
       /\ e1["TMPDIR"] = e2["TMPDIR"]
       /\ parent_env = <<e1, e2>>
  /\ tempaptdir = <<Tmpdir(parent_env[1]), "debrebuild-", "x">>
  /\ tempaptcache = "closed"
  /\ fs_dirs = {}
  /\ bin_call = NoBinCall
  /\ VerifyIdle
  /\ builder \in Builders
  /\ output_files = {}
  /\ snapshot_queries = 1
  /\ launched = <<>>
  /\ MainIdle

NextPlan ==
  \/ Build_None
  \/ Build_Mmdebstrap
  \/ Build_Sbuild

SpecPlan == InitPlan /\ [][NextPlan]_vars

\* ------------------------------------------------------------------------
\* Properties of the resolver
\* ------------------------------------------------------------------------
NDeps == Len(buildinfo.build_depends)

\* the union of the 'covers' lists of the selected sources
SelectedCovers ==
  UNION {Range(candidates[k].pkgs) :
           k \in {j \in 1..Len(candidates) :
                    candidates[j].source \in Range(required_timestamp_sources)}}

\* C1 (as stated): whenever find_build_dependencies returns without error,
\* the union of the covers of the selected timestamp sources contains every
\* package of build_depends.
C1_CoversEveryDep ==
  pc = "fbd_returned" => \A p \in 1..NDeps : p \in SelectedCovers

\* C1 (amended): whenever find_build_dependencies returns without error,
\* every package of build_depends was found in the apt cache at the refresh
\* that followed the append of one of the selected timestamp sources; that
\* source need not be the one whose covers list holds the package.
C1_FoundAtSelected ==
  pc = "fbd_returned" =>
    \A p \in 1..NDeps : found_at[p] \in Range(required_timestamp_sources)

\* a successful return in which a package lies outside the selected covers
C1_Witness ==
  /\ pc = "fbd_returned"
  /\ NDeps >= 2
  /\ \E p \in 1..NDeps : p \notin SelectedCovers

RemainingNames(notfound) ==
  [k \in 1..Len(notfound) |-> buildinfo.build_depends[notfound[k]].name]

ArchErrors == {"ArchMismatchExplicit", "ArchMismatchImplicit", "NoArchMatch"}

\* the architectures the data model allows a resolved build-dependency
AllowedArchs(recorded, build_arch) ==
  IF recorded # None THEN {recorded} ELSE {build_arch, "all"}

\* the architecture the answer offers: that of a single result, else the
\* target architecture if some result has it
OfferedArchs(recorded, build_arch, result) ==
  IF Len(result) = 1 THEN {result[1].architecture}
  ELSE {result[i].architecture : i \in 1..Len(result)}
         \cap {IF recorded # None THEN recorded ELSE build_arch}

\* C8: after get_bin_date returns, the package's architecture is the one
\* recorded in the input when one was recorded, and otherwise build_arch or
\* "all"; an answer that offers no such architecture makes the call raise
\* ArchMismatchExplicit, ArchMismatchImplicit or NoArchMatch.
C8_ArchAfterBinDate ==
  pc = "bin_done" =>
    LET recorded == bin_call.package.architecture
        allowed == AllowedArchs(recorded, bin_call.build_arch)
    IN /\ bin_call.out.err = "" =>
            bin_call.out.pkg.architecture \in allowed
       /\ (bin_call.data.json
            /\ OfferedArchs(recorded, bin_call.build_arch,
                            bin_call.data.result) \cap allowed = {})
          => bin_call.out.err \in ArchErrors

\* a package without recorded architecture resolved among two results
C8_Witness ==
  /\ pc = "bin_done"
  /\ bin_call.out.err = ""
  /\ bin_call.package.architecture = None
  /\ Len(bin_call.data.result) = 2
  /\ bin_call.data.result[1].architecture # bin_call.build_arch
  /\ bin_call.out.pkg.architecture = bin_call.build_arch

\* ------------------------------------------------------------------------
\* Properties of verify_checksums
\* ------------------------------------------------------------------------
VerificationErrors ==
  {"FileCountDiffers", "SizeDiffers", "MissingChecksumAlg", "ChecksumDiffers"}

\* C2: verify_checksums of a BuildInfo against itself succeeds, also when
\* its checksums list a .dsc file.
C2_VerifyIdentity ==
  (pc = "verified" /\ new_buildinfo.checksums = buildinfo.checksums)
    => verify_outcome = "OK"

NonDscFiles(d) == {f \in Range(Keys(d)) : ~EndsWithDsc(f)}

\* a file of both dicts differs in size, or in the value of a hash algorithm
\* of the original (a missing algorithm included)
FileDiffers(orig, new, f) ==
  \E k \in 1..Len(Item(orig, f)) :
    LET p == Item(orig, f)[k]
    IN \/ ~HasProp(Item(new, f), p.prop)
       \/ PropValue(Item(new, f), p.prop) # p.value

ChecksumsDiffer(orig, new) ==
  \/ NonDscFiles(orig) # NonDscFiles(new)
  \/ \E f \in NonDscFiles(orig) \cap NonDscFiles(new) :
       FileDiffers(orig, new, f)

\* C3: verify_checksums fails with a verification error exactly when a
\* non-.dsc file is present on one side only, or differs in size or in a
\* hash value; in every other case it succeeds.
C3_FailsIffDiffers ==
  pc = "verified" =>
    LET differ == ChecksumsDiffer(buildinfo.checksums,
                                  new_buildinfo.checksums)
    IN /\ (verify_outcome \in VerificationErrors) <=> differ
       /\ ~differ => verify_outcome = "OK"

\* ------------------------------------------------------------------------
\* Properties of get_debian_suite
\* ------------------------------------------------------------------------
\* C5: the base-files version is mapped to the code name through the table
\* 6..12 by its major number (11.1 gives bullseye); UnknownBaseFiles is
\* raised only for a version the table does not cover.
C5_SuiteFromTable ==
  pc = "suite_done" =>
    \A i \in 1..Len(buildinfo.build_depends) :
      LET pkg == buildinfo.build_depends[i]
      IN pkg.name = "base-files" =>
           IF Head(pkg.version) \in 6..12
             THEN /\ exc = NoExc
                  /\ buildinfo.debian_suite
                       = DEBIAN_VERSION[<<Head(pkg.version)>>]
           ELSE exc = BuildInfoException("UnknownBaseFiles")

\* ------------------------------------------------------------------------
\* Properties of run
\* ------------------------------------------------------------------------
AfterSetupPcs == {"build", "raised", "returned", "post_build"}

\* C4: once prepare_aptcache has created the ephemeral apt root under the
\* "debrebuild-" prefix of the temp dir, that directory no longer exists when
\* the setup stage is left, whether it completed, raised or was interrupted.
C4_TempRootRemoved ==
  (pc \in AfterSetupPcs
     /\ InTempPrefix(tempaptdir, Tmpdir(parent_env[1])))
    => tempaptdir \notin fs_dirs

\* the setup stage was left by a failed binary lookup, after the root was
\* created
C4_Witness ==
  /\ pc = "raised"
  /\ InTempPrefix(tempaptdir, Tmpdir(parent_env[1]))
  /\ exc = RebuilderException("NoBinaryFound")
  /\ fs_dirs = {}

NothingWasStarted ==
  /\ snapshot_queries = 0
  /\ tempaptdir = NoPath
  /\ fs_dirs = {}
  /\ launched = <<>>

PredictedSuffix ==
  IF buildinfo.architecture # <<>> THEN machine_arch
  ELSE IF buildinfo.build_archall THEN "all"
  ELSE "source"

NothingToBuildCase ==
  /\ buildinfo.architecture = <<>>
  /\ ~buildinfo.build_archall
  /\ ~buildinfo.build_source

\* the mode the build plan prescribes
PlannedMode ==
  IF Len(buildinfo.architecture) = 1 THEN "binary"
  ELSE IF buildinfo.build_archall THEN "all"
  ELSE "source"

C10_WhitelistedEnv ==
  \A k \in 1..Len(launched) : launched[k].env[1] = launched[k].env[2]

\* ------------------------------------------------------------------------
\* Properties of the parser
\* ------------------------------------------------------------------------
\* the env the Environment field was written from
RecordedEnv ==
  [k \in 1..Len(document.env_entries) |->
     [key |-> document.env_entries[k].key,
      value |-> document.env_entries[k].value]]

\* C11: for every line KEY="VALUE" of the Environment field, the parsed env
\* maps exactly KEY to VALUE, and the words handed to dpkg-buildpackage are
\* exactly these KEY="VALUE" pairs, none altered or dropped.
C11_EnvRoundTrip ==
  (pc \in {"parsed", "planned"} /\ exc = NoExc) =>
    /\ buildinfo.env = RecordedEnv
    /\ pc = "planned" =>
         emitted_env =
           [k \in 1..Len(RecordedEnv) |->
              RecordedEnv[k].key \o <<"=", Quote>> \o RecordedEnv[k].value
                \o <<Quote>>]

\* the lines of every block that name the file
LinesOf(f) ==
  UNION {{b.lines[i] : i \in {j \in 1..Len(b.lines) : b.lines[j][3] = f}} :
           b \in Range(document.checksums)}

\* C12: after a successful parse, every file of BuildInfo.checksums is
\* listed in every Checksums-<alg> block of the input, with one size.
C12_BlocksAgree ==
  (pc = "parsed" /\ exc = NoExc) =>
    \A k \in 1..Len(buildinfo.checksums) :
      LET f == buildinfo.checksums[k].file
      IN /\ \A b \in Range(document.checksums) :
              \E i \in 1..Len(b.lines) : b.lines[i][3] = f
         /\ \A l1, l2 \in LinesOf(f) : l1[2] = l2[2]

\* ------------------------------------------------------------------------
\* Properties of main
\* ------------------------------------------------------------------------
\* the failures of the taxonomy: the errors of the rebuilder and of the
\* parser, and the lookup that fails when the rebuilt buildinfo names other
\* files
TaxonomyFailure ==
  \/ exc.type \in {"RebuilderException", "BuildInfoException"}
  \/ exc = OtherException("KeyError") /\ verify_outcome = "KeyError"

\* C13: every failure of the taxonomy raised by the construction of the
\* Rebuilder or by run is caught by main, which logs its message as one
\* line on stderr and returns 1; a successful run exits with 0.
C13_FailuresCaught ==
  pc = "exited" =>
    /\ (exc = NoExc /\ stderr = <<>>) => exit_code = 0
    /\ TaxonomyFailure =>
         /\ exit_code = 1
         /\ stderr = <<[kind |-> "error", msg |-> exc.msg]>>

\* C14: when the input is a URL, no downloaded copy "buildinfo-*" is left
\* in the temp dir once the construction of the Rebuilder is over, however
\* it ended.
C14_DownloadRemoved ==
  (argv.url /\ pc \notin {"main", "construct"}) =>
    \A f \in tmp_files : f[2] # "buildinfo-"

\* ------------------------------------------------------------------------
\* Properties of the selection loop
\* ------------------------------------------------------------------------
\* C15: every selected timestamp source reduced notfound when it was
\* chosen: the refresh that followed its append found at least one package.
C15_SelectedSourceReduces ==
  pc \in {"fbd_loop", "fbd_returned"} =>
    \A k \in 1..Len(required_timestamp_sources) :
      \E p \in 1..NDeps : found_at[p] = required_timestamp_sources[k]

\* candidates are in the order (descending size of the bucket, input order
\* of the first package of the bucket)
CandidatesOrdered ==
  \A j, k \in 1..Len(candidates) :
    j < k =>
      \/ Len(candidates[j].pkgs) > Len(candidates[k].pkgs)
      \/ /\ Len(candidates[j].pkgs) = Len(candidates[k].pkgs)
         /\ candidates[j].pkgs[1] < candidates[k].pkgs[1]

\* the selected sources are sources of the candidates, in their order
SelectedInOrder ==
  \E pos \in [1..Len(required_timestamp_sources) -> 1..Len(candidates)] :
    /\ \A k \in DOMAIN pos :
         candidates[pos[k]].source = required_timestamp_sources[k]
    /\ \A j, k \in DOMAIN pos : j < k => pos[j] < pos[k]

\* all build-dependencies but one share a first_seen, the last one has
\* another
MajorityScenario ==
  /\ NDeps >= 3
  /\ Len(candidates) = 2
  /\ Len(candidates[1].pkgs) = NDeps - 1
  /\ Len(candidates[2].pkgs) = 1

\* C16 (as stated): candidates are visited in the order (descending bucket
\* size, input order of the first package); hence in the majority scenario a
\* successful resolver selected the source of the large bucket, then the
\* source of the single package, and nothing else.
C16_SelectsBoth ==
  /\ CandidatesOrdered
  /\ SelectedInOrder
  /\ (pc = "fbd_returned" /\ MajorityScenario) =>
       required_timestamp_sources =
         <<candidates[1].source, candidates[2].source>>

\* C16 (amended): candidates are visited in the order (descending bucket
\* size, input order of the first package); in the majority scenario a
\* successful resolver selected the source of the large bucket first, and
\* the source of the single package second exactly when the refresh for the
\* first source did not find that package; otherwise the second source is
\* skipped and one source is selected.
C16_SelectsSecondIfNeeded ==
  /\ CandidatesOrdered
  /\ SelectedInOrder
  /\ (pc = "fbd_returned" /\ MajorityScenario) =>
       LET single == candidates[2].pkgs[1]
       IN IF found_at[single] = candidates[1].source
            THEN required_timestamp_sources = <<candidates[1].source>>
          ELSE required_timestamp_sources =
                 <<candidates[1].source, candidates[2].source>>

\* the majority scenario ended with the source of the single package
\* skipped
C16_Witness ==
  /\ pc = "fbd_returned"
  /\ MajorityScenario
  /\ Len(required_timestamp_sources) = 1

\* C17: the selection loop halts: it runs at most one iteration and one
\* cache refresh per candidate, starts no iteration once notfound is empty,
\* and the resolver comes to its end.
C17_LoopHalts ==
  /\ [](/\ refreshes <= Len(candidates)
        /\ pc = "fbd_loop" =>
             /\ ci - 1 <= Len(candidates)
             /\ refreshes <= ci - 1)
  /\ [][(pc = "fbd_loop" /\ notfound_packages = <<>>) =>
          (ci' = ci /\ refreshes' = refreshes)]_vars
  /\ <>(pc \in {"fbd_returned", "setup_exit"})

\* the loop stopped before the last candidate because nothing was missing
C17_Witness ==
  /\ pc = "fbd_returned"
  /\ refreshes >= 1
  /\ ci <= Len(candidates)

\* ------------------------------------------------------------------------
\* Properties of the sources list
\* ------------------------------------------------------------------------
\* C18: the sources list a builder is launched with is the list of the
\* ephemeral sources.list the resolver validated against: the base list
\* written by the setup stage followed by the selected timestamp sources.
C18_BuilderGetsValidatedList ==
  \A k \in 1..Len(launched) : launched[k].sources_list = temp_sources_list

====
